---- MODULE Spec2Model ----
(***************************************************************************)
(* The two proxy variants of cursor-api-transformer as one state machine:  *)
(* the DeepSeek proxy (proxy.go) and the Claude-relay proxy (proxy-poe.go).*)
(* One behaviour follows one inbound request through proxyHandler: routing *)
(* and key selection, translation of the model name, the upstream attempts *)
(* (with the DeepSeek fallback), and the reply written to the caller,      *)
(* buffered or streamed.  Upstream behaviour is the environment: every     *)
(* outcome of an attempt is chosen nondeterministically.  The translation  *)
(* of the request body (messages, tool_choice) and its serialization are   *)
(* pure functions; TranslatorSpec applies them to bounded inputs.          *)
(* ConcurrentSpec interleaves the handlers of several requests over the    *)
(* package-level variables they share.                                     *)
(***************************************************************************)
EXTENDS Integers, Sequences, FiniteSets, TLC

\* ---------------------------------------------------------------- constants

deepseekChatModel == "deepseek-chat"
deepseekCoderModel == "deepseek-coder"
deepseekReasonerModel == "deepseek-reasoner"
claudeSonnetModel == "claude-sonnet-4.5"
defaultOpenAIModel == "claude-sonnet-4.5"

StatusOK == 200
StatusBadRequest == 400
StatusUnauthorized == 401
StatusNotFound == 404
StatusUnprocessableEntity == 422
StatusInternalServerError == 500
StatusBadGateway == 502

\* The number of upstream lines one stream relay reads at most.
MaxLines == 2

\* ------------------------------------------------------------ configuration

\* init(): the -model flag selects activeConfig; any other value falls back
\* to the chat configuration.
activeConfigModel(modelFlag) ==
    IF modelFlag = "coder" THEN deepseekCoderModel ELSE deepseekChatModel

\* The process-wide configuration after init(): the variant that was built,
\* the -model flag (DeepSeek only) and the server-side key ("" when unset).
Configs ==
    [variant : {"deepseek"}, modelFlag : {"chat", "coder", "bogus"},
     serverKey : {"", "sk-server"}]
    \cup [variant : {"claude"}, modelFlag : {"chat"}, serverKey : {"", "sk-server"}]

\* ------------------------------------------------------------ inbound input

\* An Authorization header value is ("Bearer " if bearer) followed by rest;
\* the absent header is the empty string.
AuthHeaders ==
    { [bearer |-> FALSE, rest |-> ""],        \* no header
      [bearer |-> FALSE, rest |-> "Basic x"], \* another scheme
      [bearer |-> TRUE, rest |-> ""],         \* "Bearer " and no token
      [bearer |-> TRUE, rest |-> "sk-user"] }

\* A path is ("/v1" if v1) followed by rest.
Paths ==
    [v1 : BOOLEAN, rest : {"/models", "/chat/completions"}]
    \cup {[v1 |-> TRUE, rest |-> "/embeddings"]}

Methods == {"OPTIONS", "GET", "POST"}

RequestModels == {"", "gpt-4o", deepseekReasonerModel}

\* The inbound body: unreadable (io.ReadAll fails), bytes that are not a
\* JSON object of the request type, or a decoded chat request.
Bodies ==
    { [kind |-> "unreadable", model |-> "", stream |-> FALSE],
      [kind |-> "malformed", model |-> "", stream |-> FALSE] }
    \cup [kind : {"json"}, model : RequestModels, stream : BOOLEAN]

\* An http.Header without the Authorization header: the values of each
\* header name, in the order of the header lines.
EmptyHeader == [k \in {} |-> <<>>]

\* The headers an inbound request may carry besides Authorization.
InboundHeaders ==
    { EmptyHeader,
      [k \in {"Accept", "User-Agent"} |->
          IF k = "Accept" THEN <<"application/json">> ELSE <<"cursor">>],
      [k \in {"Accept", "Accept-Language", "Content-Length", "Content-Encoding",
               "Transfer-Encoding", "Connection", "Content-Type", "X-Trace"} |->
          CASE k = "Accept" -> <<"text/event-stream">>
            [] k = "Accept-Language" -> <<"en", "fr">>
            [] k = "Content-Length" -> <<"42">>
            [] k = "Content-Encoding" -> <<"gzip">>
            [] k = "Transfer-Encoding" -> <<"chunked">>
            [] k = "Connection" -> <<"keep-alive">>
            [] k = "Content-Type" -> <<"text/plain">>
            [] OTHER -> <<"a", "b">>] }

\* The inbound requests: every method, path and Authorization header with a
\* plain chat body; every body as a POST of the chat path with a bearer
\* token; every body kind on every path as a GET and as a POST; and every
\* header set on a chat request, streamed or not.
Requests ==
    [method : Methods, path : Paths, auth : AuthHeaders,
     body : {[kind |-> "json", model |-> "gpt-4o", stream |-> FALSE]},
     hdr : {EmptyHeader}]
    \cup [method : {"POST"}, path : {[v1 |-> TRUE, rest |-> "/chat/completions"]},
          auth : {[bearer |-> TRUE, rest |-> "sk-user"]}, body : Bodies,
          hdr : {EmptyHeader}]
    \cup [method : {"GET", "POST"}, path : Paths,
          auth : {[bearer |-> TRUE, rest |-> "sk-user"]},
          body : {b \in Bodies : b.model \in {"", "gpt-4o"} /\ ~b.stream},
          hdr : {EmptyHeader}]
    \cup [method : {"POST"}, path : {[v1 |-> TRUE, rest |-> "/chat/completions"]},
          auth : {[bearer |-> TRUE, rest |-> "sk-user"]},
          body : [kind : {"json"}, model : {"gpt-4o"}, stream : BOOLEAN],
          hdr : InboundHeaders]

\* ------------------------------------------------------------------- state

VARIABLES
    cfg,            \* the configuration established by init()
    req,            \* the inbound request
    pc,             \* the handler's position
    apiKey,         \* userAPIKey / activeAPIKey
    requestModel,   \* the model of the translated request (attempt one)
    originalModel,  \* the model name the response handlers write
    sent,           \* the upstream attempts made, in order
    resp,           \* the upstream response the dispatcher returned
    reply,          \* what was written to the caller (status line and body)
    out,            \* the chunks written to the caller by the stream relay
    nread,          \* the number of upstream lines the relay has read
    upstreamModel,  \* the model value the upstream last reported
    lines,          \* the upstream lines the relay has read, in order
    client,         \* the caller's connection: "connected" or "gone"
    wfailed,        \* a w.Write or Flush of the relay has failed
    ended,          \* how the relay's loop ended ("" while it has not)
    tail,           \* the unterminated line the last ReadBytes returned with its error
    tin,            \* the inbound request handed to the translator
    tout,           \* the translated outbound request
    wire,           \* the outbound request as json.Marshal serializes it
    tpc,            \* the translator's position
    bodies,         \* the outbound bodies made from the request so far
    handlers,       \* the requests handled concurrently, each with its locals
    startup,        \* the configuration as init() left it
    overlapped      \* a handler has taken a step while another was in flight

\* The variables of the stream relay's history, of the request handler and
\* of the translator.
svars == <<lines, client, wfailed, ended, tail>>
hvars == <<cfg, req, pc, apiKey, requestModel, originalModel, sent, resp,
           reply, out, nread, upstreamModel, lines, client, wfailed, ended, tail>>
tvars == <<tin, tout, wire, tpc, bodies>>
cvars == <<handlers, startup, overlapped>>
vars == <<hvars, tvars, cvars>>

NoHeaders == {}

\* An upstream response as client.Do returned it: the attempt it answers, its
\* status and headers, and its body, which is "open" until it is read, then
\* "buffered" (read by the dispatcher and wrapped again), "read" (read by the
\* handler) or "failed" (io.ReadAll returned an error).
Response(n, st, h) ==
    [attempt |-> n, status |-> st, hdr |-> h, bs |-> "open", body |-> <<>>]

NoResp == [attempt |-> 0, status |-> 0, hdr |-> NoHeaders, bs |-> "open", body |-> <<>>]

NoReply ==
    [kind |-> "none", status |-> 0, msg |-> "", hdr |-> NoHeaders,
     body |-> <<>>, model |-> ""]

\* http.Error(w, msg, status): a plain-text reply written by the proxy.
httpError(msg, status) ==
    [kind |-> "text", status |-> status, msg |-> msg,
     hdr |-> {<<"Content-Type", "text/plain; charset=utf-8">>},
     body |-> <<>>, model |-> ""]

\* The OPTIONS branch: CORS headers only, the default status, no body.
corsReply ==
    [kind |-> "cors", status |-> StatusOK, msg |-> "", hdr |-> NoHeaders,
     body |-> <<>>, model |-> ""]

\* handleModelsRequest: the static model list of the variant.
handleModelsRequest(variant) ==
    [kind |-> "models", status |-> StatusOK, msg |-> "",
     hdr |-> {<<"Content-Type", "application/json">>},
     body |-> IF variant = "deepseek"
              THEN <<deepseekChatModel, deepseekReasonerModel, deepseekCoderModel>>
              ELSE <<claudeSonnetModel>>,
     model |-> ""]

\* --------------------------------------------------- routing, before dispatch

\* strings.TrimPrefix(authHeader, "Bearer ").
TrimBearer(auth) == auth.rest

\* Whether TrimPrefix left the header as it was (it had no "Bearer " prefix).
Untrimmed(auth) == ~auth.bearer

\* The DeepSeek path normalisation: "/v1" is prepended to a path that does
\* not start with "/v1/".
normalizePath(path) ==
    IF path.v1 THEN path ELSE [v1 |-> TRUE, rest |-> path.rest]

modelsPath == [v1 |-> TRUE, rest |-> "/models"]
chatCompletionsPath == [v1 |-> TRUE, rest |-> "/chat/completions"]

\* json.Unmarshal(body, &chatReq) succeeds.
ParsesAsRequest(body) == body.kind = "json"

\* The model the DeepSeek translator puts in the outbound request:
\* chatReq.Model, or deepseekChatModel when it is empty.
deepseekRequestModel(c, model) ==
    IF model = "" THEN deepseekChatModel ELSE model

\* convertClaudeToOpenAI's model: claudeReq.Model, or defaultOpenAIModel.
claudeRequestModel(model) ==
    IF model = "" THEN defaultOpenAIModel ELSE model

Stop(r) == [next |-> "done", reply |-> r, apiKey |-> "", requestModel |-> ""]

Dispatch(key, model) ==
    [next |-> "send1", reply |-> NoReply, apiKey |-> key, requestModel |-> model]

\* proxy.go proxyHandler up to the call of doDeepSeekRequestWithFallback.
deepseekPreDispatch(c, r) ==
    LET userAPIKey == TrimBearer(r.auth)
        useServer  == userAPIKey = "" \/ Untrimmed(r.auth)
        key        == IF useServer THEN c.serverKey ELSE userAPIKey
    IN  IF r.method = "OPTIONS" THEN Stop(corsReply)
        ELSE IF useServer /\ c.serverKey = ""
        THEN Stop(httpError("API key required", StatusUnauthorized))
        ELSE IF r.path = modelsPath /\ r.method = "GET"
        THEN Stop(handleModelsRequest("deepseek"))
        ELSE IF r.body.kind = "unreadable"
        THEN Stop(httpError("Error reading request", StatusBadRequest))
        ELSE IF ~ParsesAsRequest(r.body)
        THEN Stop(httpError("Invalid JSON", StatusBadRequest))
        ELSE IF r.path = modelsPath \/ r.path = [v1 |-> FALSE, rest |-> "/models"]
        THEN Stop(handleModelsRequest("deepseek"))
        ELSE IF normalizePath(r.path) # chatCompletionsPath
        THEN Stop(httpError("Not found", StatusNotFound))
        ELSE IF ~ParsesAsRequest(r.body)
        THEN Stop(httpError("Error parsing request", StatusBadRequest))
        ELSE Dispatch(key, deepseekRequestModel(c, r.body.model))

\* proxy-poe.go proxyHandler up to client.Do.
claudePreDispatch(c, r) ==
    LET userAPIKey   == TrimBearer(r.auth)
        activeAPIKey == IF userAPIKey = "" THEN c.serverKey ELSE userAPIKey
    IN  IF r.method = "OPTIONS" THEN Stop(corsReply)
        ELSE IF ~r.auth.bearer
        THEN Stop(httpError("Missing or invalid Authorization header",
                            StatusUnauthorized))
        ELSE IF activeAPIKey = ""
        THEN Stop(httpError("No API key available", StatusUnauthorized))
        ELSE IF r.path = modelsPath /\ r.method = "GET"
        THEN Stop(handleModelsRequest("claude"))
        ELSE IF r.body.kind = "unreadable"
        THEN Stop(httpError("Error reading request", StatusBadRequest))
        ELSE IF ~ParsesAsRequest(r.body)
        THEN Stop(httpError("Invalid JSON", StatusBadRequest))
        ELSE Dispatch(activeAPIKey, claudeRequestModel(r.body.model))

preDispatch(c, r) ==
    IF c.variant = "deepseek" THEN deepseekPreDispatch(c, r)
    ELSE claudePreDispatch(c, r)

\* The translator's variables while no translation is looked at.
NoInput == [variant |-> ""]
NoOutput == [variant |-> ""]

Init ==
    /\ cfg \in Configs
    /\ req \in Requests
    /\ pc = "start"
    /\ apiKey = ""
    /\ requestModel = ""
    /\ originalModel = ""
    /\ sent = <<>>
    /\ resp = NoResp
    /\ reply = NoReply
    /\ out = <<>>
    /\ nread = 0
    /\ upstreamModel = ""
    /\ lines = <<>>
    /\ client = "connected"
    /\ wfailed = FALSE
    /\ ended = ""
    /\ tail = <<>>
    /\ tin = NoInput
    /\ tout = NoOutput
    /\ wire = NoOutput
    /\ tpc = "idle"
    /\ bodies = <<>>
    /\ handlers = <<>>
    /\ startup = cfg
    /\ overlapped = FALSE

\* proxyHandler from its entry to the point where the upstream request is
\* about to be sent, or to the reply that ends the request before that.
HandleRequest ==
    /\ pc = "start"
    /\ LET d == preDispatch(cfg, req)
       IN  /\ pc' = d.next
           /\ reply' = d.reply
           /\ apiKey' = d.apiKey
           /\ requestModel' = d.requestModel
    /\ UNCHANGED <<cvars, tvars, svars, cfg, req, originalModel, sent, resp, out, nread, upstreamModel>>

\* ------------------------------------------------------ upstream behaviour

\* The statuses an upstream response may carry.
UpstreamStatuses ==
    {StatusOK, StatusBadRequest, StatusUnauthorized, StatusNotFound,
     StatusUnprocessableEntity, 429, StatusBadGateway}

\* The header sets an upstream response may carry (name, value).
UpstreamHeaders ==
    { {<<"X-Request-Id", "r1">>},
      {<<"Content-Length", "42">>, <<"Content-Encoding", "gzip">>,
       <<"Connection", "keep-alive">>, <<"Content-Type", "text/plain">>,
       <<"X-Request-Id", "r1">>},
      {<<"Content-Encoding", "br">>},
      {<<"Content-Encoding", "deflate">>} }

\* An error body is a sequence of text fragments.
ErrorBodies ==
    { <<>>, <<"rate limit">>, <<"model">>, <<"not found">>,
      <<"Model", "Not Found">>, <<"invalid model">>,
      <<"quota", "does not exist">> }

\* strings.ToLower on one fragment.
ToLower(t) ==
    CASE t = "Model" -> "model"
      [] t = "Not Found" -> "not found"
      [] OTHER -> t

\* The phrases of isModelNotFoundError that occur in a lower-case fragment.
PhrasesIn(t) ==
    CASE t = "model" -> {"model"}
      [] t = "not found" -> {"not found"}
      [] t = "not exist" -> {"not exist"}
      [] t = "invalid model" -> {"invalid model", "model"}
      [] t = "does not exist" -> {"does not exist", "not exist"}
      [] t = "no such model" -> {"no such model", "model"}
      [] OTHER -> {}

\* strings.Contains(strings.ToLower(body), phrase).
ContainsLower(body, phrase) ==
    \E i \in 1..Len(body) : phrase \in PhrasesIn(ToLower(body[i]))

\* Fault: every 400 and 422 counts as model-not-found, whatever its body.
isModelNotFoundErrorAnyBody(statusCode, body) ==
    statusCode \in {StatusNotFound, StatusBadRequest, StatusUnprocessableEntity}

isModelNotFoundError(statusCode, body) ==
    IF statusCode = StatusNotFound THEN TRUE
    ELSE IF statusCode = StatusBadRequest \/ statusCode = StatusUnprocessableEntity
    THEN /\ ContainsLower(body, "model")
         /\ \/ ContainsLower(body, "not found")
            \/ ContainsLower(body, "not exist")
            \/ ContainsLower(body, "invalid model")
            \/ ContainsLower(body, "does not exist")
            \/ ContainsLower(body, "no such model")
    ELSE FALSE

\* ---------------------------------------------------------- the dispatcher

\* r.Header: the inbound headers, the Authorization header among them when
\* the request has one.
origHeader(r) ==
    IF r.auth = [bearer |-> FALSE, rest |-> ""] THEN r.hdr
    ELSE [k \in DOMAIN r.hdr \cup {"Authorization"} |->
             IF k = "Authorization" THEN <<r.auth>> ELSE r.hdr[k]]

skipHeaders == {"Content-Length", "Content-Encoding", "Transfer-Encoding", "Connection"}

\* Fault: every inbound header is copied, the skipped ones too.
copyHeadersAll(src) == src

\* copyHeaders(dst, src) into an empty dst: every value of every header that
\* is not skipped.
copyHeaders(src) == [k \in DOMAIN src \ skipHeaders |-> src[k]]

\* Header.Set(k, v): the header k has the single value v.
HeaderSet(h, k, v) == [x \in DOMAIN h \cup {k} |-> IF x = k THEN <<v>> ELSE h[x]]

\* Header.Get(k): the first value of the header k, "" when it has none.
HeaderGet(h, k) == IF k \in DOMAIN h /\ Len(h[k]) > 0 THEN h[k][1] ELSE ""

\* The headers of the request buildDeepSeekHTTPRequest returns.
buildDeepSeekHTTPRequest(r, stream, key) ==
    LET copied   == copyHeaders(origHeader(r))
        withAuth == HeaderSet(copied, "Authorization", [bearer |-> TRUE, rest |-> key])
        withType == HeaderSet(withAuth, "Content-Type", "application/json")
        withAcc  == IF stream THEN HeaderSet(withType, "Accept", "text/event-stream")
                    ELSE withType
        acceptLanguage == HeaderGet(origHeader(r), "Accept-Language")
    IN  IF acceptLanguage # "" THEN HeaderSet(withAcc, "Accept-Language", acceptLanguage)
        ELSE withAcc

\* The headers the Claude relay sets on its upstream request.
claudeProxyHeader(stream, key) ==
    LET withAuth == HeaderSet(EmptyHeader, "Authorization", [bearer |-> TRUE, rest |-> key])
        withType == HeaderSet(withAuth, "Content-Type", "application/json")
    IN  IF stream THEN HeaderSet(withType, "Accept", "text/event-stream") ELSE withType

\* The headers of an upstream request of the variant.
proxyHeader(variant, r, key) ==
    IF variant = "deepseek" THEN buildDeepSeekHTTPRequest(r, r.body.stream, key)
    ELSE claudeProxyHeader(r.body.stream, key)

Attempt(model, h) == [model |-> model, state |-> "inflight", hdr |-> h]

\* The attempt list with attempt i in state s: "inflight" (client.Do has not
\* returned), "open" (a response was returned, its body is still open),
\* "closed" (its body was closed) or "failed" (client.Do returned an error).
SetState(i, s) == [sent EXCEPT ![i].state = s]

\* Fault: the handler never follows usedModel (originalModel stays the
\* requested model after a fallback).
followUsedModelStale(reqModel, usedModel) == reqModel

\* What the handler keeps of the model name once the dispatcher returned
\* usedModel: originalModel starts as requestModel and follows usedModel.
followUsedModel(reqModel, usedModel) ==
    IF usedModel # reqModel THEN usedModel ELSE reqModel

\* Fault: a dispatcher error is answered with 400 instead of 502.
forwardingFailedAsBadRequest ==
    httpError("Error forwarding request", StatusBadRequest)

\* The reply to a dispatcher error: "Error forwarding request".
forwardingFailed == httpError("Error forwarding request", StatusBadGateway)

\* client.Do(proxyReq) is called for attempt one.
Attempt1Send ==
    /\ pc = "send1"
    /\ sent' = Append(sent, Attempt(requestModel, proxyHeader(cfg.variant, req, apiKey)))
    /\ pc' = "await1"
    /\ UNCHANGED <<cvars, tvars, svars, cfg, req, apiKey, requestModel, originalModel, resp, reply,
                   out, nread, upstreamModel>>

\* Fault: an error of attempt one is returned at once, without the fallback.
afterAttempt1ErrorReturned == "done"

\* Where doDeepSeekRequestWithFallback goes when client.Do of attempt one
\* returned an error: to the fallback.
afterAttempt1Error == "send2"

\* DeepSeek, attempt one: client.Do returns an error.
DeepSeekAttempt1Fails ==
    /\ pc = "await1"
    /\ cfg.variant = "deepseek"
    /\ sent' = SetState(1, "failed")
    /\ pc' = afterAttempt1Error
    /\ reply' = IF afterAttempt1Error = "done" THEN forwardingFailed ELSE reply
    /\ UNCHANGED <<cvars, tvars, svars, cfg, req, apiKey, requestModel, originalModel, resp, out,
                   nread, upstreamModel>>

\* DeepSeek, attempt one: client.Do returns a response.  Below 400 it is
\* returned at once with usedModel = dsReq.Model; otherwise its body is read.
DeepSeekAttempt1Responds ==
    /\ pc = "await1"
    /\ cfg.variant = "deepseek"
    /\ \E st \in UpstreamStatuses, h \in UpstreamHeaders :
          /\ resp' = Response(1, st, h)
          /\ IF st < StatusBadRequest
             THEN /\ pc' = "respond"
                  /\ originalModel' = followUsedModel(requestModel, requestModel)
             ELSE /\ pc' = "read1"
                  /\ UNCHANGED originalModel
    /\ sent' = SetState(1, "open")
    /\ UNCHANGED <<cvars, tvars, svars, cfg, req, apiKey, requestModel, reply, out, nread, upstreamModel>>

\* DeepSeek, attempt one: io.ReadAll of the error body fails; the dispatcher
\* returns the read error and the handler answers 502.
DeepSeekAttempt1ReadFails ==
    /\ pc = "read1"
    /\ sent' = SetState(1, "closed")
    /\ resp' = [resp EXCEPT !.bs = "failed"]
    /\ reply' = forwardingFailed
    /\ pc' = "done"
    /\ UNCHANGED <<cvars, tvars, svars, cfg, req, apiKey, requestModel, originalModel, out, nread,
                   upstreamModel>>

\* DeepSeek, attempt one: the error body is read and closed; a model-not-found
\* error leads to the fallback, any other is returned with its body buffered.
\* resp keeps attempt one's response until client.Do of the fallback
\* overwrites it.
DeepSeekAttempt1Classified ==
    /\ pc = "read1"
    /\ \E b \in ErrorBodies :
          /\ resp' = [resp EXCEPT !.bs = "buffered", !.body = b]
          /\ IF isModelNotFoundError(resp.status, b)
             THEN /\ pc' = "send2"
                  /\ UNCHANGED originalModel
             ELSE /\ pc' = "respond"
                  /\ originalModel' = followUsedModel(requestModel, requestModel)
    /\ sent' = SetState(1, "closed")
    /\ UNCHANGED <<cvars, tvars, svars, cfg, req, apiKey, requestModel, reply, out, nread, upstreamModel>>

\* Fault: the fallback is also started while attempt one is still awaited or
\* its body is still being read (a hedged second request).
atFallbackRaced == pc \in {"send2", "await1", "read1"}

\* The point of doDeepSeekRequestWithFallback where the fallback is built and
\* sent: after the if/else that resolved attempt one.
atFallback == pc = "send2"

\* client.Do(fallbackReq): the body is dsReq with Model = deepseekReasonerModel.
FallbackSend ==
    /\ atFallback
    /\ sent' = Append(sent, Attempt(deepseekReasonerModel,
                                     buildDeepSeekHTTPRequest(req, req.body.stream, apiKey)))
    /\ pc' = "await2"
    /\ UNCHANGED <<cvars, tvars, svars, cfg, req, apiKey, requestModel, originalModel, resp, reply,
                   out, nread, upstreamModel>>

\* Fault: a failed fallback attempt is sent again.
afterFallbackErrorRetry == "send2"

\* Where the dispatcher goes when client.Do of the fallback returned an
\* error: it returns the error.
afterFallbackError == "done"

\* The fallback attempt: client.Do returns an error.
FallbackFails ==
    /\ pc = "await2"
    /\ sent' = SetState(Len(sent), "failed")
    /\ pc' = afterFallbackError
    /\ reply' = IF afterFallbackError = "done" THEN forwardingFailed ELSE reply
    /\ UNCHANGED <<cvars, tvars, svars, cfg, req, apiKey, requestModel, originalModel, resp, out,
                   nread, upstreamModel>>

\* The fallback attempt: client.Do returns a response, whatever its status;
\* usedModel = deepseekReasonerModel.
FallbackResponds ==
    /\ pc = "await2"
    /\ \E st \in UpstreamStatuses, h \in UpstreamHeaders :
          resp' = Response(Len(sent), st, h)
    /\ sent' = SetState(Len(sent), "open")
    /\ originalModel' = followUsedModel(requestModel, deepseekReasonerModel)
    /\ pc' = "respond"
    /\ UNCHANGED <<cvars, tvars, svars, cfg, req, apiKey, requestModel, reply, out, nread, upstreamModel>>

\* Claude relay: client.Do returns an error; the handler answers 502.
ClaudeAttemptFails ==
    /\ pc = "await1"
    /\ cfg.variant = "claude"
    /\ sent' = SetState(1, "failed")
    /\ reply' = forwardingFailed
    /\ pc' = "done"
    /\ UNCHANGED <<cvars, tvars, svars, cfg, req, apiKey, requestModel, originalModel, resp, out,
                   nread, upstreamModel>>

\* The model name the Claude relay hands to its response handlers:
\* claudeReq.Model, as the caller sent it.
claudeOriginalModel(r) == r.body.model

\* Claude relay: client.Do returns a response.
ClaudeAttemptResponds ==
    /\ pc = "await1"
    /\ cfg.variant = "claude"
    /\ \E st \in UpstreamStatuses, h \in UpstreamHeaders :
          resp' = Response(1, st, h)
    /\ sent' = SetState(1, "open")
    /\ originalModel' = claudeOriginalModel(req)
    /\ pc' = "respond"
    /\ UNCHANGED <<cvars, tvars, svars, cfg, req, apiKey, requestModel, reply, out, nread, upstreamModel>>

\* ------------------------------------------------ the reply to the caller

\* Header().Set(name, value) on a header set.
SetHeader(h, name, value) ==
    {p \in h : p[1] # name} \cup {<<name, value>>}

\* Fault: an upstream error is reported as a 502 of the proxy's own, its body
\* dropped.
errorReplyMasked(variant, r, body) ==
    [kind |-> "forward", status |-> StatusBadGateway, msg |-> "", hdr |-> r.hdr,
     body |-> <<>>, model |-> ""]

\* The forwarded error response: every upstream header is copied to the
\* reply, the DeepSeek proxy then sets Content-Type; status and body are the
\* upstream's.
errorReply(variant, r, body) ==
    [kind |-> "forward", status |-> r.status, msg |-> "",
     hdr |-> IF variant = "deepseek"
             THEN SetHeader(r.hdr, "Content-Type", "application/json")
             ELSE r.hdr,
     body |-> body, model |-> ""]

\* The handler's "if resp.StatusCode >= 400" branch on a response whose body
\* the dispatcher already buffered (attempt one, not a model error).
ForwardBufferedError ==
    /\ pc = "respond"
    /\ resp.status >= StatusBadRequest
    /\ resp.bs = "buffered"
    /\ reply' = errorReply(cfg.variant, resp, resp.body)
    /\ pc' = "done"
    /\ UNCHANGED <<cvars, tvars, svars, cfg, req, apiKey, requestModel, originalModel, sent, resp,
                   out, nread, upstreamModel>>

\* The same branch on a response whose body is still open: the body is read
\* and forwarded, and the deferred resp.Body.Close() runs.
ForwardError ==
    /\ pc = "respond"
    /\ resp.status >= StatusBadRequest
    /\ resp.bs = "open"
    /\ \E b \in ErrorBodies :
          /\ resp' = [resp EXCEPT !.bs = "read", !.body = b]
          /\ reply' = errorReply(cfg.variant, resp, b)
    /\ sent' = SetState(Len(sent), "closed")
    /\ pc' = "done"
    /\ UNCHANGED <<cvars, tvars, svars, cfg, req, apiKey, requestModel, originalModel, out, nread,
                   upstreamModel>>

\* The same branch when io.ReadAll of the error body fails.
ForwardErrorReadFails ==
    /\ pc = "respond"
    /\ resp.status >= StatusBadRequest
    /\ resp.bs = "open"
    /\ resp' = [resp EXCEPT !.bs = "failed"]
    /\ reply' = httpError("Error reading response", StatusInternalServerError)
    /\ sent' = SetState(Len(sent), "closed")
    /\ pc' = "done"
    /\ UNCHANGED <<cvars, tvars, svars, cfg, req, apiKey, requestModel, originalModel, out, nread,
                   upstreamModel>>

\* The model values an upstream response may report.
UpstreamModels == {"upstream-model", deepseekChatModel}

\* A tool call of a response message, by id and function name.
ToolCall(id, name) == [id |-> id, name |-> name]

\* The choices of an upstream response: for each choice the tool calls of its
\* message.
ChoiceLists ==
    { <<>>, << <<>> >>, << <<ToolCall("call_1", "lookup")>> >>,
      << <<ToolCall("call_1", "")>> >>,
      << <<ToolCall("call_1", "lookup"), ToolCall("call_2", ""),
           ToolCall("call_3", "search")>> >>,
      << <<ToolCall("call_1", "lookup")>>,
         <<ToolCall("call_2", ""), ToolCall("call_3", "search")>> >> }

\* The body of a successful buffered upstream response: unreadable (the read
\* fails), not JSON of the response type, or a response object.
UpstreamBodies ==
    { [kind |-> "unreadable", model |-> "", choices |-> <<>>],
      [kind |-> "unparsable", model |-> "", choices |-> <<>>] }
    \cup [kind : {"json"}, model : UpstreamModels, choices : ChoiceLists]

\* resp.Header.Get("Content-Encoding") ("" when the header is not set).
contentEncoding(h) ==
    IF \E p \in h : p[1] = "Content-Encoding"
    THEN (CHOOSE p \in h : p[1] = "Content-Encoding")[2]
    ELSE ""

\* The bytes of a body on the wire: the body itself, or its compressed form
\* when the upstream names a content encoding.
encodeBody(enc, body) ==
    IF enc = "" \/ body.kind = "unreadable" THEN body
    ELSE [kind |-> "encoded", enc |-> enc, of |-> body]

\* readResponse: the body is read through a gzip, brotli or flate reader when
\* Content-Encoding names it, and as it is otherwise.
readResponse(h, wireBody) ==
    IF /\ contentEncoding(h) \in {"gzip", "br", "deflate"}
       /\ wireBody.kind = "encoded"
       /\ wireBody.enc = contentEncoding(h)
    THEN wireBody.of
    ELSE wireBody

\* The model field of a translated response: originalModel replaces the
\* upstream's value.
responseModel(upstream, original) == original

IsNamed(tc) == tc.name # ""

\* The tool calls of a choice's message in the translated response.  The
\* DeepSeek proxy copies the upstream message, tool calls included, and then
\* appends each tool call with a function name to the copy; the Claude relay
\* decodes and encodes the message as it is.
responseToolCalls(variant, calls) ==
    IF variant = "deepseek" THEN calls \o SelectSeq(calls, IsNamed) ELSE calls

\* handleRegularResponse, on the body readResponse returned.
regularReply(status, up, original) ==
    IF up.kind = "unreadable"
    THEN httpError("Error reading response from upstream", StatusInternalServerError)
    ELSE IF up.kind # "json"
    THEN [kind |-> "empty", status |-> StatusInternalServerError, msg |-> "",
          hdr |-> NoHeaders, body |-> <<>>, model |-> ""]
    ELSE [kind |-> "json", status |-> status, msg |-> "",
          hdr |-> {<<"Content-Type", "application/json">>}, body |-> <<>>,
          model |-> responseModel(up.model, original),
          choices |-> [i \in 1..Len(up.choices) |->
                          responseToolCalls(cfg.variant, up.choices[i])]]

\* chatReq.Stream / claudeReq.Stream.
wantsStream == req.body.stream

\* The handler's buffered path: handleRegularResponse reads, translates and
\* writes the response, and the deferred resp.Body.Close() runs.
RegularResponse ==
    /\ pc = "respond"
    /\ resp.status < StatusBadRequest
    /\ ~wantsStream
    /\ \E up \in UpstreamBodies :
          LET wireBody == encodeBody(contentEncoding(resp.hdr), up)
          IN  /\ reply' = regularReply(resp.status, readResponse(resp.hdr, wireBody),
                                       originalModel)
              /\ resp' = [resp EXCEPT !.bs = IF up.kind = "unreadable"
                                             THEN "failed" ELSE "read",
                                      !.body = up]
              /\ upstreamModel' = up.model
    /\ sent' = SetState(Len(sent), "closed")
    /\ pc' = "done"
    /\ UNCHANGED <<cvars, tvars, svars, cfg, req, apiKey, requestModel, originalModel,
                   out, nread>>

\* ------------------------------------------------------- the stream relay

NoPayload == [kind |-> "none", model |-> ""]

\* The payload of a data line after the prefix and the surrounding white
\* space are removed: the [DONE] marker, the JSON value null, a JSON value
\* that is no object, text that is not JSON, or a JSON object.
StreamPayloads ==
    [kind : {"done", "null", "array", "garbage"}, model : {""}]
    \cup [kind : {"object"}, model : UpstreamModels]

\* An upstream line, terminated by "\n": blank, "data: " and a payload, or
\* any other line.
StreamLines ==
    [shape : {"blank", "other"}, payload : {NoPayload}]
    \cup [shape : {"data"}, payload : StreamPayloads]

\* What the relay writes: a line as it was read, a re-encoded event, or the
\* [DONE] event.
Raw(line) == [shape |-> "raw", line |-> line, model |-> ""]
Event(model) == [shape |-> "event", line |-> [shape |-> "data", payload |-> NoPayload],
                 model |-> model]
DoneEvent == [shape |-> "done", line |-> [shape |-> "data", payload |-> NoPayload],
              model |-> ""]

\* json.Unmarshal([]byte(data), &chunk) with chunk a map: null decodes
\* without error and leaves the map nil.
UnmarshalOK(payload) == payload.kind \in {"object", "null"}
NilMap(payload) == payload.kind = "null"

\* Fault: the loop goes on after the [DONE] event.
afterDoneContinues == "relay"

\* Where the loop goes after the [DONE] event was written and flushed: break.
afterDone == "done"

\* One iteration of handleStreamingResponse's loop on a line that was read:
\* the chunks written and where the loop goes.
relayLine(line, original) ==
    IF line.shape = "blank"
    THEN [chunks |-> <<Raw(line)>>, next |-> "relay"]
    ELSE IF line.shape = "data"
    THEN IF line.payload.kind = "done"
         THEN [chunks |-> <<DoneEvent>>, next |-> afterDone]
         ELSE IF UnmarshalOK(line.payload)
         THEN IF NilMap(line.payload)
              THEN [chunks |-> <<>>, next |-> "panicked"]
              ELSE [chunks |-> <<Event(original)>>, next |-> "relay"]
         ELSE [chunks |-> <<Raw(line)>>, next |-> "relay"]
    ELSE [chunks |-> <<Raw(line)>>, next |-> "relay"]

\* handleStreamingResponse up to its loop: the status line and the stream
\* headers are written.
StartStream ==
    /\ pc = "respond"
    /\ resp.status < StatusBadRequest
    /\ wantsStream
    /\ reply' = [kind |-> "stream", status |-> resp.status, msg |-> "",
                 hdr |-> {<<"Content-Type", "text/event-stream">>,
                          <<"Cache-Control", "no-cache">>,
                          <<"Connection", "keep-alive">>},
                 body |-> <<>>, model |-> ""]
    /\ pc' = "relay"
    /\ UNCHANGED <<cvars, tvars, svars, cfg, req, apiKey, requestModel, originalModel,
                   sent, resp, out, nread, upstreamModel>>

\* The caller closes its connection while the relay runs; from then on every
\* w.Write and Flush of the relay returns an error.
ClientDisconnects ==
    /\ pc = "relay"
    /\ client = "connected"
    /\ client' = "gone"
    /\ UNCHANGED <<cvars, tvars, cfg, req, pc, apiKey, requestModel, originalModel,
                   sent, resp, reply, out, nread, upstreamModel, lines, wfailed,
                   ended, tail>>

\* Fault: a line's output is put in front of what was written before.
writeChunksInFront(o, chunks) == chunks \o o

\* w.Write of a line's chunks, then Flush, on a connected client: the chunks
\* follow what was written before.
writeChunks(o, chunks) == o \o chunks

\* How the loop ended when it left state "relay".
endOf(next) ==
    CASE next = "done" -> "done"
      [] next = "panicked" -> "panic"
      [] OTHER -> ""

\* What bufio.NewReader(resp.Body).ReadBytes('\n') returns for a line the
\* upstream sent: the body is read as it is on the wire, so the line itself,
\* or a run of compressed bytes when the upstream names a content encoding.
CompressedLine == [shape |-> "compressed", payload |-> NoPayload]
readLine(h, line) == IF contentEncoding(h) = "" THEN line ELSE CompressedLine

\* reader.ReadBytes('\n') returns a line; it is processed and flushed.  The
\* results of w.Write and Flush are not looked at: on a client that is gone
\* nothing reaches the caller and the loop goes on as it does otherwise.
RelayLine ==
    /\ pc = "relay"
    /\ nread < MaxLines
    /\ \E sentLine \in StreamLines :
          LET line == readLine(resp.hdr, sentLine)
              r == relayLine(line, originalModel)
          IN  /\ lines' = Append(lines, line)
              /\ out' = IF client = "connected" THEN writeChunks(out, r.chunks)
                        ELSE out
              /\ wfailed' = (wfailed \/ (client = "gone" /\ r.chunks # <<>>))
              /\ pc' = r.next
              /\ ended' = endOf(r.next)
              /\ upstreamModel' = IF line.payload.kind = "object"
                                  THEN line.payload.model ELSE upstreamModel
              /\ sent' = IF r.next = "relay" THEN sent
                         ELSE SetState(Len(sent), "closed")
    /\ nread' = nread + 1
    /\ UNCHANGED <<cvars, tvars, cfg, req, apiKey, requestModel, originalModel, resp,
                   reply, client, tail>>

\* The bytes ReadBytes returns together with an error: none, or a line that
\* the stream's end or the error cut off before its "\n".
Tails ==
    { <<>>, <<[shape |-> "other", payload |-> NoPayload]>>,
      <<[shape |-> "data", payload |-> [kind |-> "object", model |-> "upstream-model"]]>> }

\* reader.ReadBytes('\n') returns io.EOF, with the bytes read since the last
\* "\n": the loop ends without looking at them and the handler returns.
RelayEnds ==
    /\ pc = "relay"
    /\ pc' = "done"
    /\ ended' = "eof"
    /\ \E t \in Tails : tail' = [i \in 1..Len(t) |-> readLine(resp.hdr, t[i])]
    /\ sent' = SetState(Len(sent), "closed")
    /\ UNCHANGED <<cvars, tvars, cfg, req, apiKey, requestModel, originalModel, resp,
                   reply, out, nread, upstreamModel, lines, client, wfailed>>

\* Fault: the loop goes on reading after a read error.
afterReadErrorContinues == "relay"

\* Where the loop goes when ReadBytes returned an error that is not io.EOF:
\* the handler returns.
afterReadError == "done"

\* reader.ReadBytes('\n') returns an error that is not io.EOF.  The bytes it
\* returns with the error (a line cut short) are not looked at.
RelayReadFails ==
    /\ pc = "relay"
    /\ ended = ""
    /\ pc' = afterReadError
    /\ ended' = "error"
    /\ \E t \in Tails : tail' = [i \in 1..Len(t) |-> readLine(resp.hdr, t[i])]
    /\ sent' = IF afterReadError = "done" THEN SetState(Len(sent), "closed")
               ELSE sent
    /\ UNCHANGED <<cvars, tvars, cfg, req, apiKey, requestModel, originalModel, resp,
                   reply, out, nread, upstreamModel, lines, client, wfailed>>

\* ------------------------------------------------------- the specification

Next ==
    \/ HandleRequest
    \/ Attempt1Send
    \/ DeepSeekAttempt1Fails
    \/ DeepSeekAttempt1Responds
    \/ DeepSeekAttempt1ReadFails
    \/ DeepSeekAttempt1Classified
    \/ FallbackSend
    \/ FallbackFails
    \/ FallbackResponds
    \/ ClaudeAttemptFails
    \/ ClaudeAttemptResponds
    \/ ForwardBufferedError
    \/ ForwardError
    \/ ForwardErrorReadFails
    \/ RegularResponse
    \/ StartStream
    \/ ClientDisconnects
    \/ RelayLine
    \/ RelayEnds
    \/ RelayReadFails

Spec == Init /\ [][Next]_vars

\* ----------------------------------------------------------- the translator

\* The number of messages of an inbound request.
MaxMessages == 2

\* A text is a sequence of fragments; the empty text is the empty string.
NoText == <<>>

\* strings.Join(texts, sep).
RECURSIVE Join(_, _)
Join(texts, sep) ==
    IF texts = <<>> THEN NoText
    ELSE IF Len(texts) = 1 THEN texts[1]
    ELSE texts[1] \o <<sep>> \o Join(Tail(texts), sep)

\* The "content" of a tool_result part: absent, a string, or an array of
\* parts of which texts are the string "text" fields.
NoResult == [kind |-> "absent", texts |-> <<>>]
StringResult(t) == [kind |-> "string", texts |-> <<t>>]
ArrayResult(ts) == [kind |-> "array", texts |-> ts]

\* The parts of an array content.  id is the "id" of a tool_use part and the
\* "tool_use_id" of a tool_result part ("" when it is no string).
TextPart(t) == [type |-> "text", text |-> t, id |-> "", result |-> NoResult]
ToolUsePart(id) == [type |-> "tool_use", text |-> NoText, id |-> id, result |-> NoResult]
ToolResultPart(id, result) ==
    [type |-> "tool_result", text |-> NoText, id |-> id, result |-> result]

\* Message.Content as json.RawMessage: absent (nil), the JSON value null, a
\* string, an array of parts, or another JSON value.
AbsentContent == [kind |-> "absent", text |-> NoText, parts |-> <<>>]
NullContent == [kind |-> "null", text |-> NoText, parts |-> <<>>]
StringContent(t) == [kind |-> "string", text |-> t, parts |-> <<>>]
ArrayContent(ps) == [kind |-> "array", text |-> NoText, parts |-> ps]
OtherContent == [kind |-> "other", text |-> NoText, parts |-> <<>>]

\* The contents of inbound messages.
Contents ==
    { AbsentContent, NullContent, OtherContent,
      StringContent(NoText), StringContent(<<"hi">>),
      ArrayContent(<<>>),
      ArrayContent(<<TextPart(NoText)>>),
      ArrayContent(<<TextPart(<<"hi">>), TextPart(<<"more">>)>>),
      ArrayContent(<<ToolUsePart("call_1")>>),
      ArrayContent(<<TextPart(<<"hi">>), ToolUsePart("call_1")>>),
      ArrayContent(<<ToolResultPart("call_1", StringResult(<<"ok">>))>>),
      ArrayContent(<<ToolResultPart("call_1", StringResult(NoText))>>),
      ArrayContent(<<ToolResultPart("call_1", NoResult)>>),
      ArrayContent(<<ToolResultPart("call_1", ArrayResult(<<>>))>>),
      ArrayContent(<<ToolResultPart("call_1", ArrayResult(<<<<"a">>, <<"b">>>>))>>),
      ArrayContent(<<ToolResultPart("", StringResult(<<"ok">>))>>),
      ArrayContent(<<ToolResultPart("call_1", StringResult(<<"ok">>)),
                     ToolResultPart("call_2", StringResult(<<"ok">>))>>),
      ArrayContent(<<TextPart(<<"hi">>),
                     ToolResultPart("call_1", StringResult(<<"ok">>))>>) }

\* The tool_calls of an inbound message.
ToolCallLists ==
    { <<>>, <<[id |-> "call_1", type |-> "function", name |-> "lookup"]>> }

\* The inbound messages: every content without tool calls, and the short
\* contents with tool calls.
Messages ==
    [role : {"user", "assistant"}, content : Contents, toolCalls : {<<>>},
     toolCallID : {""}]
    \cup [role : {"user", "assistant"},
          content : {AbsentContent, NullContent, StringContent(NoText),
                     StringContent(<<"hi">>)},
          toolCalls : ToolCallLists \ {<<>>}, toolCallID : {""}]
    \cup { [role |-> "function", content |-> StringContent(<<"ok">>),
            toolCalls |-> <<>>, toolCallID |-> "call_1"],
           [role |-> "tool", content |-> StringContent(<<"ok">>),
            toolCalls |-> <<>>, toolCallID |-> "call_1"] }

PlainMessage ==
    [role |-> "user", content |-> StringContent(<<"hi">>), toolCalls |-> <<>>,
     toolCallID |-> ""]

\* The message lists of at most MaxMessages messages.
MessageLists == UNION { [1..n -> Messages] : n \in 0..MaxMessages }

\* The inbound tool_choice, decoded into an interface{}: absent or null
\* (nil), a string, an object with a "type" field, or another value.
NoToolChoice == [kind |-> "absent", value |-> ""]
ToolChoices ==
    { NoToolChoice,
      [kind |-> "string", value |-> "auto"],
      [kind |-> "string", value |-> "none"],
      [kind |-> "string", value |-> "required"],
      [kind |-> "object", value |-> "function"],
      [kind |-> "object", value |-> "tool"],
      [kind |-> "number", value |-> "1"] }

\* The tools of an inbound request (ChatRequest.Tools, ClaudeRequest.Tools)
\* and the legacy functions (ChatRequest.Functions), by type and name.
Tool(type, name) == [type |-> type, name |-> name]
ToolLists ==
    { <<>>, <<Tool("function", "lookup")>>,
      <<Tool("function", "lookup"), Tool("function", "search")>> }
FunctionLists ==
    { <<>>, <<Tool("", "legacy")>>, <<Tool("", "legacy"), Tool("", "older")>> }

\* The system field of a Claude request: the texts of its blocks.
Systems == { <<>>, <<NoText>>, <<<<"be brief">>, <<"be kind">>>> }

\* An optional number of a request (a *float64 or *int field): absent (the
\* pointer is nil) or a value.
Absent == [set |-> FALSE, value |-> 0]
Some(v) == [set |-> TRUE, value |-> v]

\* The temperature values of a request, in tenths, and its max_tokens values.
Temperatures == {Absent, Some(0), Some(7)}
MaxTokenValues == {Absent, Some(0), Some(1024)}

\* The requests handed to the translators: every message list with nothing
\* else set; every model, tool_choice, tool list, function list and system
\* with one plain message; and every temperature and max_tokens with one
\* plain message.
TranslatorInputs ==
    [variant : {"deepseek", "claude"}, model : {"gpt-4o"}, messages : MessageLists,
     tools : {<<>>}, functions : {<<>>}, toolChoice : {NoToolChoice},
     system : {<<>>}, temperature : {Absent}, maxTokens : {Absent},
     stream : {FALSE}]
    \cup [variant : {"deepseek", "claude"}, model : RequestModels,
          messages : {<<PlainMessage>>}, tools : ToolLists,
          functions : FunctionLists, toolChoice : ToolChoices, system : Systems,
          temperature : {Absent}, maxTokens : {Absent}, stream : {FALSE}]
    \cup [variant : {"deepseek", "claude"}, model : {"gpt-4o"},
          messages : {<<PlainMessage>>}, tools : {<<>>}, functions : {<<>>},
          toolChoice : {NoToolChoice}, system : {<<>>},
          temperature : Temperatures, maxTokens : MaxTokenValues,
          stream : BOOLEAN]

\* An outbound content: a nil interface (Claude relay) or a string.
NilContent == [kind |-> "nil", text |-> NoText]
Str(t) == [kind |-> "string", text |-> t]

OutMessage(role, content, toolCalls, toolCallID) ==
    [role |-> role, content |-> content, toolCalls |-> toolCalls,
     toolCallID |-> toolCallID]

\* --- convertClaudeToOpenAI

\* json.Unmarshal(msg.Content, &parts) into a slice succeeds: the content is
\* an array, or null (which leaves the slice nil).
ParsesAsParts(content) == content.kind \in {"array", "null"}

IsToolResult(part) == part.type = "tool_result"

HasToolResult(content) ==
    \E i \in 1..Len(content.parts) : IsToolResult(content.parts[i])

\* The content of the tool message made from a tool_result part.
toolResultContent(result) ==
    IF result.kind = "array"
    THEN IF Len(result.texts) > 0 THEN Str(Join(result.texts, "\n"))
         ELSE NilContent
    ELSE IF result.kind = "string" THEN Str(result.texts[1])
    ELSE NilContent

\* The tool message made from a tool_result part; it is appended whatever
\* its content.
toolMessage(part) ==
    OutMessage("tool", toolResultContent(part.result), <<>>, part.id)

\* The first branch of the loop: the messages a user message with tool_result
\* parts is replaced by.
toolMessages(msg) ==
    LET results == SelectSeq(msg.content.parts, IsToolResult)
    IN  [i \in 1..Len(results) |-> toolMessage(results[i])]

\* The branch is taken for a message of role "user" only.
takesToolResultBranch(msg) ==
    /\ msg.role = "user"
    /\ msg.content.kind # "absent"
    /\ ParsesAsParts(msg.content)
    /\ HasToolResult(msg.content)

IsNonEmptyText(part) == part.type = "text" /\ part.text # NoText
IsToolUse(part) == part.type = "tool_use"

\* The tool call made from a tool_use part.
toolCallOfPart(part) == [id |-> part.id, type |-> "function", name |-> "lookup"]

\* openAIMsg.Content after the "convert content" step.
claudeContent(content) ==
    IF content.kind = "absent" THEN NilContent
    ELSE IF content.kind = "string" THEN Str(content.text)
    ELSE IF content.kind = "null" THEN Str(NoText)
    ELSE IF content.kind = "array"
    THEN LET textParts == SelectSeq(content.parts, IsNonEmptyText)
         IN  IF Len(textParts) > 0
             THEN Str(Join([i \in 1..Len(textParts) |-> textParts[i].text], "\n"))
             ELSE NilContent
    ELSE NilContent

\* openAIMsg.ToolCalls: the tool_use parts of an array content, replaced by
\* msg.ToolCalls when there are any.
claudeToolCalls(msg) ==
    IF Len(msg.toolCalls) > 0 THEN msg.toolCalls
    ELSE IF msg.content.kind = "array"
    THEN LET uses == SelectSeq(msg.content.parts, IsToolUse)
         IN  [i \in 1..Len(uses) |-> toolCallOfPart(uses[i])]
    ELSE <<>>

\* The regular branch of the loop: the message is appended when it has
\* content or tool calls.
regularMessage(msg) ==
    LET content      == claudeContent(msg.content)
        calls        == claudeToolCalls(msg)
        hasContent   == content.kind # "nil" /\ content.text # NoText
        hasToolCalls == Len(calls) > 0
    IN  IF hasContent \/ hasToolCalls
        THEN << OutMessage(msg.role,
                           IF msg.role = "assistant" /\ hasToolCalls /\ ~hasContent
                           THEN NilContent ELSE content,
                           calls, msg.toolCallID) >>
        ELSE <<>>

\* One iteration of the loop over claudeReq.Messages.
claudeMessage(msg) ==
    IF takesToolResultBranch(msg) THEN toolMessages(msg) ELSE regularMessage(msg)

\* The system message put at the head of the list.
systemMessages(system) ==
    LET IsSet(t) == t # NoText
        systemTexts == SelectSeq(system, IsSet)
    IN  IF Len(systemTexts) > 0
        THEN <<OutMessage("system", Str(Join(systemTexts, "\n\n")), <<>>, "")>>
        ELSE <<>>

\* The outputs of the messages, one after the other.
RECURSIVE claudeMessages(_)
claudeMessages(msgs) ==
    IF msgs = <<>> THEN <<>>
    ELSE claudeMessage(Head(msgs)) \o claudeMessages(Tail(msgs))

\* openAIReq.Tools: one tool of type "function" per Claude tool, in order.
claudeTools(tools) == [i \in 1..Len(tools) |-> Tool("function", tools[i].name)]

convertClaudeToOpenAI(r) ==
    [variant |-> "claude",
     model |-> claudeRequestModel(r.model),
     messages |-> systemMessages(r.system) \o claudeMessages(r.messages),
     tools |-> claudeTools(r.tools),
     toolChoice |-> r.toolChoice,
     temperature |-> r.temperature,
     maxTokens |-> r.maxTokens,
     stream |-> r.stream]

\* --- the DeepSeek translation

\* Message.GetContentString.
GetContentString(content) ==
    IF content.kind = "string" THEN content.text
    ELSE IF content.kind = "array"
    THEN LET textParts == SelectSeq(content.parts, IsNonEmptyText)
         IN  Join([i \in 1..Len(textParts) |-> textParts[i].text], "\n")
    ELSE NoText

\* One iteration of convertMessages' loop.
convertMessage(msg) ==
    OutMessage(IF msg.role = "function" THEN "tool" ELSE msg.role,
               Str(GetContentString(msg.content)),
               IF msg.role = "assistant" /\ Len(msg.toolCalls) > 0
               THEN [i \in 1..Len(msg.toolCalls) |->
                        [msg.toolCalls[i] EXCEPT !.type = "function"]]
               ELSE msg.toolCalls,
               msg.toolCallID)

convertMessages(msgs) == [i \in 1..Len(msgs) |-> convertMessage(msgs[i])]

\* convertToolChoice: "" is the absent choice.
convertToolChoice(choice) ==
    IF choice.kind = "absent" THEN ""
    ELSE IF choice.kind = "string" /\ choice.value \in {"auto", "none"}
    THEN choice.value
    ELSE IF choice.kind = "object" /\ choice.value = "function" THEN "auto"
    ELSE ""

\* Fault: the functions are wrapped in reverse order.
functionsToToolsReversed(functions) ==
    [i \in 1..Len(functions) |->
        Tool("function", functions[Len(functions) + 1 - i].name)]

\* The legacy functions wrapped as tools: {type: "function", function: fn},
\* one per function, in order.
functionsToTools(functions) ==
    [i \in 1..Len(functions) |-> Tool("function", functions[i].name)]

\* deepseekReq.Tools: the inbound tools when there are any, else the wrapped
\* functions when there are any, else none.
deepseekTools(tools, functions) ==
    IF Len(tools) > 0 THEN tools
    ELSE IF Len(functions) > 0 THEN functionsToTools(functions)
    ELSE <<>>

\* proxyHandler's construction of deepseekReq: the tool choice is converted
\* only when the request has tools or functions.
\* A float64 or int field of deepseekReq after "if p != nil { field = *p }":
\* the value, or the zero value the field was made with.
valueOrZero(p) == IF p.set THEN p.value ELSE 0

deepseekRequest(r) ==
    [variant |-> "deepseek",
     model |-> deepseekRequestModel(r, r.model),
     messages |-> convertMessages(r.messages),
     tools |-> deepseekTools(r.tools, r.functions),
     toolChoice |-> IF (Len(r.tools) > 0 \/ Len(r.functions) > 0)
                       /\ convertToolChoice(r.toolChoice) # ""
                    THEN [kind |-> "string", value |-> convertToolChoice(r.toolChoice)]
                    ELSE NoToolChoice,
     temperature |-> valueOrZero(r.temperature),
     maxTokens |-> valueOrZero(r.maxTokens),
     stream |-> r.stream]

\* --- json.Marshal of the outbound request

\* The content field of a serialized message.  OpenAIMessage.Content is an
\* interface{} with omitempty: a nil value is left out.  Message.Content is a
\* json.RawMessage holding a JSON string.
marshalContent(content) ==
    IF content.kind = "nil" THEN [kind |-> "omitted", text |-> NoText]
    ELSE [kind |-> "string", text |-> content.text]

marshalMessage(m) == [m EXCEPT !.content = marshalContent(m.content)]

\* A number field with omitempty as it is serialized.  DeepSeekRequest holds
\* plain values: the zero value is left out.  OpenAIRequest holds pointers: a
\* nil pointer is left out, a pointer to zero is written.
marshalNumber(variant, field) ==
    IF variant = "deepseek"
    THEN (IF field = 0 THEN Absent ELSE Some(field))
    ELSE field

\* json.Marshal(openAIReq) / json.Marshal(deepseekReq): tool_choice has
\* omitempty and is written as it is held.
marshalRequest(o) ==
    [o EXCEPT !.messages = [i \in 1..Len(o.messages) |-> marshalMessage(o.messages[i])],
              !.temperature = marshalNumber(o.variant, o.temperature),
              !.maxTokens = marshalNumber(o.variant, o.maxTokens)]

\* --- the translators as a state machine

TranslatorInit ==
    /\ tin \in TranslatorInputs
    /\ tout = NoOutput
    /\ wire = NoOutput
    /\ tpc = "input"
    /\ bodies = <<>>
    /\ cfg = [variant |-> tin.variant, modelFlag |-> "chat", serverKey |-> ""]
    /\ handlers = <<>>
    /\ startup = cfg
    /\ overlapped = FALSE
    /\ req = [method |-> "POST", path |-> chatCompletionsPath,
              auth |-> [bearer |-> TRUE, rest |-> "sk-user"],
              body |-> [kind |-> "json", model |-> tin.model, stream |-> FALSE],
              hdr |-> EmptyHeader]
    /\ pc = "start"
    /\ apiKey = ""
    /\ requestModel = ""
    /\ originalModel = ""
    /\ sent = <<>>
    /\ resp = NoResp
    /\ reply = NoReply
    /\ out = <<>>
    /\ nread = 0
    /\ upstreamModel = ""
    /\ lines = <<>>
    /\ client = "connected"
    /\ wfailed = FALSE
    /\ ended = ""
    /\ tail = <<>>

\* proxy-poe.go: convertClaudeToOpenAI(claudeReq).
ConvertClaudeRequest ==
    /\ tpc = "input"
    /\ tin.variant = "claude"
    /\ tout' = convertClaudeToOpenAI(tin)
    /\ tpc' = "translated"
    /\ UNCHANGED <<cvars, hvars, tin, wire, bodies>>

\* proxy.go: the construction of deepseekReq.
ConvertDeepSeekRequest ==
    /\ tpc = "input"
    /\ tin.variant = "deepseek"
    /\ tout' = deepseekRequest(tin)
    /\ tpc' = "translated"
    /\ UNCHANGED <<cvars, hvars, tin, wire, bodies>>

\* Fault: the keys of JSON objects are written in an order that changes from
\* one call to the next.
keyOrderPerCall(n) == n

\* The order in which call n of json.Marshal writes the keys of a JSON object:
\* struct fields in declaration order and map keys sorted, whatever the call.
keyOrder(n) == "sorted"

\* json.Marshal of the translated request.
MarshalRequest ==
    /\ tpc = "translated"
    /\ wire' = marshalRequest(tout)
    /\ bodies' = Append(bodies, [body |-> marshalRequest(tout),
                                  keys |-> keyOrder(Len(bodies) + 1)])
    /\ tpc' = "marshalled"
    /\ UNCHANGED <<cvars, hvars, tin, tout>>

\* The number of times one inbound request is translated.
MaxTranslations == 2

\* The same inbound request is handed to the translator once more.
TranslateAgain ==
    /\ tpc = "marshalled"
    /\ Len(bodies) < MaxTranslations
    /\ tpc' = "input"
    /\ tout' = NoOutput
    /\ wire' = NoOutput
    /\ UNCHANGED <<cvars, hvars, tin, bodies>>

\* Fault: the fallback request is built without the tools of the request.
fallbackRequestNoTools(dsReq) ==
    [dsReq EXCEPT !.model = deepseekReasonerModel, !.tools = <<>>]

\* The request of the fallback attempt: the dispatcher's copy of dsReq with
\* Model = deepseekReasonerModel.
fallbackRequest(dsReq) == [dsReq EXCEPT !.model = deepseekReasonerModel]

\* doDeepSeekRequestWithFallback from its fallback on, when the fallback's
\* response is returned: the fallback body is made from dsReq, and the handler
\* follows the usedModel that is returned, deepseekReasonerModel.
FallbackBody ==
    /\ tpc = "marshalled"
    /\ tin.variant = "deepseek"
    /\ wire' = marshalRequest(fallbackRequest(tout))
    /\ originalModel' = followUsedModel(tout.model, deepseekReasonerModel)
    /\ tpc' = "fallback"
    /\ UNCHANGED <<cvars, svars, cfg, req, pc, apiKey, requestModel, sent, resp, reply,
                   out, nread, upstreamModel, tin, tout, bodies>>

TranslatorNext ==
    \/ ConvertClaudeRequest
    \/ ConvertDeepSeekRequest
    \/ MarshalRequest
    \/ TranslateAgain
    \/ FallbackBody

TranslatorSpec == TranslatorInit /\ [][TranslatorNext]_vars


\* ------------------------------------------------- requests handled at once

\* The number of requests handled at the same time.
MaxHandlers == 2

ConcurrentConfigs ==
    { [variant |-> "deepseek", modelFlag |-> "chat", serverKey |-> ""],
      [variant |-> "deepseek", modelFlag |-> "chat", serverKey |-> "sk-server"],
      [variant |-> "claude", modelFlag |-> "chat", serverKey |-> "sk-server"] }

\* The requests handled at once: a chat request with the caller's key, one
\* without a key, and a models request.
ConcurrentRequests ==
    { [method |-> "POST", path |-> chatCompletionsPath,
       auth |-> [bearer |-> TRUE, rest |-> "sk-user"],
       body |-> [kind |-> "json", model |-> "gpt-4o", stream |-> FALSE],
       hdr |-> EmptyHeader],
      [method |-> "POST", path |-> chatCompletionsPath,
       auth |-> [bearer |-> TRUE, rest |-> ""],
       body |-> [kind |-> "json", model |-> "", stream |-> FALSE],
       hdr |-> EmptyHeader],
      [method |-> "GET", path |-> modelsPath,
       auth |-> [bearer |-> TRUE, rest |-> "sk-user"],
       body |-> [kind |-> "malformed", model |-> "", stream |-> FALSE],
       hdr |-> EmptyHeader] }

\* What client.Do returns for one attempt: an error, or a response with its
\* status, its error body (err) and its body when it is a success (up).
Failure ==
    [kind |-> "fail", status |-> 0, err |-> <<>>,
     up |-> [kind |-> "json", model |-> "", choices |-> <<>>]]

Answer(st, err) ==
    [kind |-> "resp", status |-> st, err |-> err,
     up |-> [kind |-> "json", model |-> "upstream-model", choices |-> <<>>]]

\* What the upstream answers to the attempts of one request, in order.
UpstreamAnswers ==
    { <<Answer(StatusOK, <<>>), Answer(StatusOK, <<>>)>>,
      <<Failure, Answer(StatusOK, <<>>)>>,
      <<Answer(StatusNotFound, <<>>), Failure>>,
      <<Answer(StatusBadRequest, <<"invalid model">>),
        Answer(StatusUnauthorized, <<"rate limit">>)>> }

\* A handler at its entry: the request, the upstream's answers to it, and
\* the handler's local variables.
NewHandler(r, answers) ==
    [req |-> r, answers |-> answers, pc |-> "start", apiKey |-> "",
     requestModel |-> "", originalModel |-> "", sent |-> <<>>, reply |-> NoReply]

\* Fault: the key a request uses is stored in the package-level key.
globalsAfterStepKeepKey(c, h) ==
    IF h.apiKey # "" THEN [c EXCEPT !.serverKey = h.apiKey] ELSE c

\* The package-level variables after a step of a handler: deepseekAPIKey,
\* activeConfig and poeAPIKey are assigned in init() only; the key a request
\* uses is the handler's local userAPIKey / activeAPIKey.
globalsAfterStep(c, h) == c

\* The response the handler of h answers: that of its last attempt.
lastAnswer(h) == h.answers[Len(h.sent)]

\* One step of a handler of a buffered request under the package-level
\* variables c: proxyHandler up to the dispatch, client.Do of an attempt and
\* its return, and the reply.
step(c, h) ==
    CASE h.pc = "start" ->
            LET d == preDispatch(c, h.req)
            IN  [h EXCEPT !.pc = d.next, !.reply = d.reply, !.apiKey = d.apiKey,
                          !.requestModel = d.requestModel]
      [] h.pc = "send1" ->
            [h EXCEPT !.pc = "await1",
                      !.sent = <<Attempt(h.requestModel,
                                         proxyHeader(c.variant, h.req, h.apiKey))>>]
      [] h.pc = "await1" ->
            LET a == h.answers[1]
            IN  IF c.variant = "claude"
                THEN IF a.kind = "fail"
                     THEN [h EXCEPT !.pc = "done", !.sent[1].state = "failed",
                                    !.reply = forwardingFailed]
                     ELSE [h EXCEPT !.pc = "respond", !.sent[1].state = "open",
                                    !.originalModel = claudeOriginalModel(h.req)]
                ELSE IF a.kind = "fail"
                THEN [h EXCEPT !.pc = afterAttempt1Error, !.sent[1].state = "failed"]
                ELSE IF a.status < StatusBadRequest
                THEN [h EXCEPT !.pc = "respond", !.sent[1].state = "open",
                               !.originalModel =
                                   followUsedModel(h.requestModel, h.requestModel)]
                ELSE IF isModelNotFoundError(a.status, a.err)
                THEN [h EXCEPT !.pc = "send2", !.sent[1].state = "closed"]
                ELSE [h EXCEPT !.pc = "respond", !.sent[1].state = "closed",
                               !.originalModel =
                                   followUsedModel(h.requestModel, h.requestModel)]
      [] h.pc = "send2" ->
            [h EXCEPT !.pc = "await2",
                      !.sent = Append(h.sent,
                                      Attempt(deepseekReasonerModel,
                                              buildDeepSeekHTTPRequest(
                                                  h.req, h.req.body.stream, h.apiKey)))]
      [] h.pc = "await2" ->
            IF h.answers[2].kind = "fail"
            THEN [h EXCEPT !.pc = afterFallbackError, !.sent[2].state = "failed",
                           !.reply = forwardingFailed]
            ELSE [h EXCEPT !.pc = "respond", !.sent[2].state = "open",
                           !.originalModel =
                               followUsedModel(h.requestModel, deepseekReasonerModel)]
      [] h.pc = "respond" ->
            LET a == lastAnswer(h)
            IN  [h EXCEPT !.pc = "done", !.sent[Len(h.sent)].state = "closed",
                          !.reply =
                              IF a.status >= StatusBadRequest
                              THEN errorReply(c.variant,
                                              [status |-> a.status, hdr |-> NoHeaders],
                                              a.err)
                              ELSE regularReply(a.status, a.up, h.originalModel)]
      [] OTHER -> h

ConcurrentInit ==
    /\ cfg \in ConcurrentConfigs
    /\ startup = cfg
    /\ handlers \in [1..MaxHandlers ->
                        {NewHandler(r, a) : r \in ConcurrentRequests,
                                            a \in UpstreamAnswers}]
    /\ overlapped = FALSE
    /\ req = handlers[1].req
    /\ pc = "idle"
    /\ apiKey = ""
    /\ requestModel = ""
    /\ originalModel = ""
    /\ sent = <<>>
    /\ resp = NoResp
    /\ reply = NoReply
    /\ out = <<>>
    /\ nread = 0
    /\ upstreamModel = ""
    /\ lines = <<>>
    /\ client = "connected"
    /\ wfailed = FALSE
    /\ ended = ""
    /\ tail = <<>>
    /\ tin = NoInput
    /\ tout = NoOutput
    /\ wire = NoOutput
    /\ tpc = "idle"
    /\ bodies = <<>>

InFlight(h) == h.pc \notin {"start", "done"}

\* Handler i takes its next step while it is in one of the given positions;
\* the other handlers stay where they are.
StepAt(i, positions) ==
    /\ handlers[i].pc \in positions
    /\ handlers' = [handlers EXCEPT ![i] = step(cfg, handlers[i])]
    /\ cfg' = globalsAfterStep(cfg, handlers'[i])
    /\ overlapped' = (overlapped \/ \E j \in DOMAIN handlers :
                                       j # i /\ InFlight(handlers[j]))
    /\ UNCHANGED <<startup, tvars, svars, req, pc, apiKey, requestModel, originalModel,
                   sent, resp, reply, out, nread, upstreamModel>>

\* proxyHandler is entered for a request and runs up to the dispatch.
HandlerStarts == \E i \in DOMAIN handlers : StepAt(i, {"start"})

\* client.Do is called for an attempt of a request.
HandlerSends == \E i \in DOMAIN handlers : StepAt(i, {"send1", "send2"})

\* client.Do returns for an attempt of a request.
HandlerReceives == \E i \in DOMAIN handlers : StepAt(i, {"await1", "await2"})

\* The response of a request is written to its caller.
HandlerResponds == \E i \in DOMAIN handlers : StepAt(i, {"respond"})

ConcurrentNext ==
    \/ HandlerStarts
    \/ HandlerSends
    \/ HandlerReceives
    \/ HandlerResponds

ConcurrentSpec == ConcurrentInit /\ [][ConcurrentNext]_vars

\* ------------------------------------------------------------- properties

\* C1.  DeepSeek proxy: when the final upstream response has a status below
\* 400, the model field of the buffered reply and of every re-encoded stream
\* event is the model of the last upstream attempt (the effective model):
\* the requested model when attempt one was returned, the fallback model
\* after a fallback; the value the upstream reported is never kept.
C1_ResponseModelIsEffective ==
    (cfg.variant = "deepseek" /\ resp.attempt = Len(sent) /\ resp.attempt > 0
        /\ resp.status < StatusBadRequest)
    => LET effective == sent[Len(sent)].model
       IN  /\ Len(sent) = 1 /\ req.body.model # "" => effective = req.body.model
           /\ Len(sent) > 1 => effective = deepseekReasonerModel
           /\ reply.kind = "json" => reply.model = effective
           /\ \A i \in 1..Len(out) :
                 out[i].shape = "event" => out[i].model = effective

\* C1, reached: after a fallback, a streamed event was re-encoded although the
\* upstream reported another model.
C1_Witness ==
    /\ cfg.variant = "deepseek"
    /\ Len(sent) > 1
    /\ resp.status < StatusBadRequest
    /\ Len(out) = 1
    /\ out[1].shape = "event"
    /\ out[1].model = deepseekReasonerModel
    /\ upstreamModel = "upstream-model"

\* C2.  A request with an empty model is sent upstream with the configured
\* default model: the model of activeConfig (DeepSeek proxy), the default
\* Claude model (Claude relay).
C2_EmptyModelUsesConfiguredDefault ==
    (sent # <<>> /\ req.body.model = "")
    => sent[1].model = IF cfg.variant = "deepseek"
                       THEN activeConfigModel(cfg.modelFlag)
                       ELSE defaultOpenAIModel

\* C3.  In both proxies, a request with an empty model and no fallback is
\* answered with the default model that was sent upstream, in the buffered
\* reply and in every re-encoded stream event.
C3_EmptyModelReplyCarriesDefault ==
    (req.body.model = "" /\ Len(sent) = 1)
    => /\ reply.kind = "json" => reply.model = sent[1].model /\ reply.model # ""
       /\ \A i \in 1..Len(out) :
             out[i].shape = "event" => out[i].model = sent[1].model

\* C4.  At most two upstream attempts are made for a request by the DeepSeek
\* proxy and at most one by the Claude relay, and a fallback attempt that
\* failed ends the request: it is answered and nothing more is sent.
C4_AtMostTwoAttempts ==
    /\ Len(sent) <= IF cfg.variant = "deepseek" THEN 2 ELSE 1
    /\ \A i \in 2..Len(sent) :
          sent[i].state = "failed" => pc = "done" /\ reply.kind # "none"

\* C4, reached: the fallback attempt failed and the request is over.
C4_Witness ==
    /\ Len(sent) = 2
    /\ sent[1].state = "closed"
    /\ sent[2].state = "failed"
    /\ pc = "done"

C6_FallbackAfterAttemptOneResolved ==
    /\ (pc = "send2" \/ Len(sent) >= 2) =>
          /\ sent[1].state \in {"failed", "closed"}
          /\ resp.attempt = 1 => resp.bs = "buffered"
    /\ \A i, j \in 1..Len(sent) :
          (i # j /\ sent[i].state \in {"inflight", "open"})
          => sent[j].state \in {"failed", "closed"}

\* C6, reached: the fallback is in flight, attempt one's body read and closed.
C6_Witness ==
    /\ Len(sent) = 2
    /\ sent[2].state = "inflight"
    /\ sent[1].state = "closed"
    /\ resp.attempt = 1
    /\ resp.bs = "buffered"

C8_ErrorHeadersFiltered ==
    LET transport == {"Content-Length", "Content-Encoding", "Transfer-Encoding",
                      "Connection"}
    IN  reply.kind = "forward"
        => /\ \A p \in reply.hdr : p[1] \notin transport
           /\ \A p \in resp.hdr : p[1] \notin transport => p \in reply.hdr

C10_NoAttemptBeforeClientError ==
    (reply.kind = "text" /\ reply.status \in {StatusBadRequest, StatusUnauthorized})
    => sent = <<>> /\ pc = "done"

\* C10, reached: a malformed body was answered 400.
C10_Witness ==
    /\ reply.status = StatusBadRequest
    /\ reply.msg = "Invalid JSON"
    /\ req.body.kind = "malformed"
    /\ sent = <<>>

\* C11.  For a chat-completions request, in both proxies: a bearer token of
\* the caller is the key used upstream; without one (no Authorization header,
\* or a header without a bearer token) the server's key is used when there is
\* one, and the request goes on; 401 is the answer exactly when there is
\* neither.
C11_KeySelection ==
    LET chat      == /\ req.method = "POST"
                     /\ req.path.rest = "/chat/completions"
                     /\ req.body.kind = "json"
        callerKey == IF req.auth.bearer THEN req.auth.rest ELSE ""
        is401     == reply.kind = "text" /\ reply.status = StatusUnauthorized
    IN  (chat /\ pc # "start")
        => /\ is401 <=> (callerKey = "" /\ cfg.serverKey = "")
           /\ ~is401 => apiKey = IF callerKey # "" THEN callerKey
                                 ELSE cfg.serverKey

\* Whether seq s starts with seq p.
IsPrefix(p, s) ==
    /\ Len(p) <= Len(s)
    /\ \A i \in 1..Len(p) : p[i] = s[i]

\* The outputs of the lines ls, one after the other, as the loop computes
\* them for model name original.
RECURSIVE OutputOf(_, _)
OutputOf(ls, original) ==
    IF ls = <<>> THEN <<>>
    ELSE OutputOf(SubSeq(ls, 1, Len(ls) - 1), original)
         \o relayLine(ls[Len(ls)], original).chunks

\* C12.  Stream relay: a data line whose payload is [DONE] is the last line
\* read; the relay writes the [DONE] event for it and ends, so the event is
\* the last thing written and nothing is read or written after it.
C12_DoneEndsTheRelay ==
    /\ \A i \in 1..Len(lines) :
          (lines[i].shape = "data" /\ lines[i].payload.kind = "done")
          => /\ i = Len(lines)
             /\ pc = "done"
             /\ ended = "done"
             /\ ~wfailed => (out # <<>> /\ out[Len(out)] = DoneEvent)
    /\ \A j \in 1..Len(out) :
          out[j] = DoneEvent => (j = Len(out) /\ pc = "done" /\ ended = "done")

\* C12, reached: [DONE] was the first line read, its event was written and
\* the relay ended although more lines could have been read.
C12_Witness ==
    /\ Len(lines) = 1
    /\ nread < MaxLines
    /\ lines[1].payload.kind = "done"
    /\ out = <<DoneEvent>>
    /\ pc = "done"

\* C13.  Stream relay: what reached the caller is the outputs of the lines
\* read, one after the other in the order read: all of them while no write
\* failed, a prefix of them otherwise.
C13_OutputInInputOrder ==
    LET expected == OutputOf(lines, originalModel)
    IN  /\ IsPrefix(out, expected)
        /\ ~wfailed => out = expected

\* C13, reached: two different lines were relayed, each with an output.
C13_Witness ==
    /\ Len(lines) = 2
    /\ lines[1].shape = "data"
    /\ lines[1].payload.kind = "object"
    /\ lines[2].shape = "other"
    /\ out = <<Event(originalModel), Raw(lines[2])>>
    /\ pc = "relay"

\* C14.  Stream relay: for every data line read whose payload is not [DONE],
\* the relay wrote either the re-encoded event or the line as it was, and
\* went on with the loop; no payload ends the relay.
C14_NoPayloadAbortsTheRelay ==
    \A i \in 1..Len(lines) :
       (lines[i].shape = "data" /\ lines[i].payload.kind # "done")
       => LET r == relayLine(lines[i], originalModel)
          IN  /\ r.chunks \in {<<Event(originalModel)>>, <<Raw(lines[i])>>}
              /\ r.next = "relay"
              /\ pc # "panicked"

\* C15.  Stream relay: after a read error that is not the end of the stream
\* the relay is over, the upstream body closed, and what reached the caller
\* is the output, in order, of the complete lines read before the error.
C15_ReadErrorStopsTheRelay ==
    ended = "error"
    => /\ pc = "done"
       /\ sent[Len(sent)].state = "closed"
       /\ IsPrefix(out, OutputOf(lines, originalModel))
       /\ ~wfailed => out = OutputOf(lines, originalModel)

\* C15, reached: one line was relayed, then the read failed.
C15_Witness ==
    /\ ended = "error"
    /\ Len(lines) = 1
    /\ Len(out) = 1
    /\ out[1].shape = "event"
    /\ pc = "done"

\* C16.  Stream relay: once a write or flush to the caller has failed, no
\* further line is read from the upstream.
C16_NoReadAfterFailedWrite ==
    [][wfailed => lines' = lines]_vars

\* C17.  Claude relay translator: every inbound message, of any role, whose
\* content is an array with a tool_result part is replaced, at its place in
\* the outbound list, by one message of role "tool" per tool_result part,
\* with tool_call_id the part's tool_use_id, and by nothing else.
C17_ToolResultsBecomeToolMessages ==
    (tin.variant = "claude" /\ tpc # "input")
    => /\ tout.messages = systemMessages(tin.system) \o claudeMessages(tin.messages)
       /\ \A i \in 1..Len(tin.messages) :
             LET msg     == tin.messages[i]
                 results == SelectSeq(msg.content.parts, IsToolResult)
                 segment == claudeMessage(msg)
             IN  (msg.content.kind = "array" /\ Len(results) > 0)
                 => /\ Len(segment) = Len(results)
                    /\ \A j \in 1..Len(results) :
                          /\ segment[j].role = "tool"
                          /\ segment[j].toolCallID = results[j].id

\* C18.  Every message of a translated outbound request, of either proxy,
\* has a non-empty content or at least one tool call.
C18_NoEmptyOutboundMessage ==
    tpc # "input"
    => \A i \in 1..Len(tout.messages) :
          \/ tout.messages[i].content.kind = "string"
             /\ tout.messages[i].content.text # NoText
          \/ Len(tout.messages[i].toolCalls) > 0

\* C19.  Every serialized outbound message of role "assistant" that has a
\* tool call and no text carries a content field whose value is null: the
\* field is neither left out nor the empty string.
C19_EmptyAssistantContentIsNull ==
    tpc = "marshalled"
    => \A i \in 1..Len(wire.messages) :
          LET m == wire.messages[i]
          IN  (/\ m.role = "assistant"
               /\ Len(m.toolCalls) > 0
               /\ (m.content.kind # "string" \/ m.content.text = NoText))
              => m.content.kind = "null"

\* C20.  In both proxies the serialized tool_choice is "auto", "none" or
\* absent: "auto" and "none" are kept, an object of type "function" becomes
\* "auto", and every other value leaves the field out.
C20_ToolChoiceIsAutoNoneOrAbsent ==
    tpc = "marshalled"
    => wire.toolChoice =
          IF tin.toolChoice.kind = "string" /\ tin.toolChoice.value \in {"auto", "none"}
          THEN tin.toolChoice
          ELSE IF tin.toolChoice.kind = "object" /\ tin.toolChoice.value = "function"
          THEN [kind |-> "string", value |-> "auto"]
          ELSE NoToolChoice

\* C21.  DeepSeek translator: the serialized tools are the inbound tools when
\* the request has tools (its functions are ignored); they are one
\* {type: "function", function: f} per function, in order, when it has
\* functions and no tools; there are none when it has neither.
C21_FunctionsBecomeTools ==
    (tin.variant = "deepseek" /\ tpc = "marshalled")
    => IF Len(tin.tools) > 0 THEN wire.tools = tin.tools
       ELSE IF Len(tin.functions) > 0
       THEN /\ Len(wire.tools) = Len(tin.functions)
            /\ \A i \in 1..Len(tin.functions) :
                  wire.tools[i] = [type |-> "function", name |-> tin.functions[i].name]
       ELSE wire.tools = <<>>

\* C21, reached: two functions and no tools were wrapped as two tools.
C21_Witness ==
    /\ tin.variant = "deepseek"
    /\ tpc = "marshalled"
    /\ tin.tools = <<>>
    /\ Len(tin.functions) = 2
    /\ wire.tools = <<Tool("function", "legacy"), Tool("function", "older")>>

\* C22.  Buffered response translation: no tool call with an empty function
\* name is in a choice's message of the reply, and an upstream response with
\* such a tool call is still answered with the translated response.
C22_NoUnnamedToolCallReturned ==
    /\ reply.kind = "json"
       => \A i \in 1..Len(reply.choices) :
             \A j \in 1..Len(reply.choices[i]) : reply.choices[i][j].name # ""
    /\ (pc = "done" /\ resp.status < StatusBadRequest /\ ~wantsStream
          /\ resp.bs = "read" /\ resp.body.kind = "json")
       => reply.kind = "json" /\ reply.status = resp.status

\* C23.  DeepSeek proxy, buffered response translation: the tool calls of
\* every choice's message of the reply are the upstream's tool calls with a
\* function name, each once and in the upstream's order.
C23_NamedToolCallsOnceInOrder ==
    (cfg.variant = "deepseek" /\ reply.kind = "json")
    => /\ Len(reply.choices) = Len(resp.body.choices)
       /\ \A i \in 1..Len(reply.choices) :
             /\ reply.choices[i] = SelectSeq(resp.body.choices[i], IsNamed)
             /\ Len(reply.choices[i]) <= Len(resp.body.choices[i])

\* C29.  An upstream response of status below 400 whose Content-Encoding is
\* gzip, br or deflate is decoded before it is processed: the buffered path
\* translates the decoded JSON, and the stream relay reads decoded lines.
C29_EncodedBodyIsDecoded ==
    (/\ resp.attempt > 0
     /\ resp.status < StatusBadRequest
     /\ contentEncoding(resp.hdr) \in {"gzip", "br", "deflate"})
    => /\ (resp.bs = "read" /\ resp.body.kind = "json") => reply.kind = "json"
       /\ \A i \in 1..Len(lines) : lines[i] # CompressedLine

Values(h, k) == IF k \in DOMAIN h THEN h[k] ELSE <<>>

\* The headers buildDeepSeekHTTPRequest sets after the copy.
setHeaders == {"Authorization", "Content-Type", "Accept", "Accept-Language"}

C26_AcceptEventStreamOnlyWhenStreaming ==
    \A i \in 1..Len(sent) :
        (\E n \in 1..Len(Values(sent[i].hdr, "Accept")) :
            sent[i].hdr["Accept"][n] = "text/event-stream")
        => req.body.stream

\* C26 in the Claude relay, where the upstream request has only the headers
\* the relay sets.
C26_ClaudeAcceptOnlyWhenStreaming ==
    cfg.variant = "claude" => C26_AcceptEventStreamOnlyWhenStreaming

\* C27.  DeepSeek proxy: a request that is past the OPTIONS, key and models
\* handling and whose normalized path is not /v1/chat/completions is answered
\* 404 and makes no upstream attempt, whatever its body is.
C27_OtherPathsAre404 ==
    (/\ cfg.variant = "deepseek"
     /\ pc # "start"
     /\ req.method # "OPTIONS"
     /\ req.auth = [bearer |-> TRUE, rest |-> "sk-user"]
     /\ normalizePath(req.path) \notin {modelsPath, chatCompletionsPath})
    => /\ reply = httpError("Not found", StatusNotFound)
       /\ sent = <<>>

\* C27, second half: only the normalized path /v1/chat/completions reaches
\* the dispatcher.
C27_OnlyChatPathIsDispatched ==
    (cfg.variant = "deepseek" /\ sent # <<>>)
    => normalizePath(req.path) = chatCompletionsPath

\* C28.  Every GET /v1/models is answered with the static model list of the
\* variant and makes no upstream attempt.
C28_ModelsListIsStatic ==
    (req.method = "GET" /\ req.path = modelsPath /\ pc # "start")
    => /\ reply = handleModelsRequest(cfg.variant)
       /\ sent = <<>>

\* C28, second half: a GET /v1/models makes no upstream attempt.
C28_ModelsMakesNoAttempt ==
    (req.method = "GET" /\ req.path = modelsPath) => sent = <<>>

\* A handler running with no other request in flight, from h to its end.
RECURSIVE Alone(_, _)
Alone(c, h) == IF h.pc = "done" THEN h ELSE Alone(c, step(c, h))

C33_NumbersAreKept ==
    (tin.variant = "deepseek" /\ tpc = "marshalled")
    => /\ wire.temperature = tin.temperature
       /\ wire.maxTokens = tin.maxTokens

\* C33 for the values other than 0, and for the absent field.
C33_NonZeroNumbersAreKept ==
    (tin.variant = "deepseek" /\ tpc = "marshalled")
    => /\ tin.temperature # Some(0) => wire.temperature = tin.temperature
       /\ tin.maxTokens # Some(0) => wire.maxTokens = tin.maxTokens

\* C32.  Stream relay: when the stream has ended, what reached the caller is
\* the output of everything read from the upstream, the last line without a
\* terminating newline included (a prefix of it once a write has failed).
C32_UnterminatedLastLineIsForwarded ==
    ended = "eof"
    => LET expected == OutputOf(lines \o tail, originalModel)
       IN  /\ IsPrefix(out, expected)
           /\ ~wfailed => out = expected

\* C32 for the lines that end with a newline.
C32_TerminatedLinesAreForwarded ==
    (ended = "eof" /\ ~wfailed) => out = OutputOf(lines, originalModel)

\* The body of attempt one: the body last made from the request.
firstBody == bodies[Len(bodies)].body

\* C31.  DeepSeek dispatcher: the body of the fallback attempt is the body of
\* attempt one with the model replaced by deepseekReasonerModel (messages,
\* stream, temperature, max_tokens, tools and tool_choice are those of attempt
\* one), and the model name the handler follows is deepseekReasonerModel.
C31_FallbackBodyDiffersInModelOnly ==
    tpc = "fallback"
    => /\ wire = [firstBody EXCEPT !.model = deepseekReasonerModel]
       /\ wire.model = deepseekReasonerModel
       /\ originalModel = deepseekReasonerModel

\* C31, reached: the fallback body was made for a request of another model
\* with tools and a tool_choice, and for one with a temperature, max_tokens
\* and the stream flag.
C31_Witness ==
    /\ tpc = "fallback"
    /\ firstBody.model = "gpt-4o"
    /\ \/ /\ Len(firstBody.tools) = 2
          /\ firstBody.toolChoice # NoToolChoice
       \/ /\ firstBody.temperature = Some(7)
          /\ firstBody.maxTokens = Some(1024)
          /\ firstBody.stream

====
